---------------------------- MODULE Spec2Model ----------------------------
(***************************************************************************)
(* Model of the tree image pipeline (src/image-analyzer).                  *)
(*                                                                         *)
(* Strings are sequences of one-character strings, so that lower(),        *)
(* startswith(), basename(), splitext() and the `in` substring test are    *)
(* computed character by character as Python computes them.                *)
(***************************************************************************)
EXTENDS Integers, Sequences, FiniteSets, TLC

(***************************************************************************)
(* Bounds of the model.                                                    *)
(***************************************************************************)
MaxBlobs == 2        \* objects in the container when the process starts
MaxKeywords == 2     \* length of the --keywords list
MaxLocal == 2        \* entries of the local upload directory
MaxNameLen == 4      \* length of the enumerated file names given to is_video

(***************************************************************************)
(* String helpers (Python str / os.path semantics, POSIX separator).       *)
(***************************************************************************)
UpperLetters == <<"A","B","C","D","E","F","G","H","I","J","K","L","M",
                  "N","O","P","Q","R","S","T","U","V","W","X","Y","Z">>
LowerLetters == <<"a","b","c","d","e","f","g","h","i","j","k","l","m",
                  "n","o","p","q","r","s","t","u","v","w","x","y","z">>

LowerChar(c) ==
    IF \E i \in 1..26 : UpperLetters[i] = c
    THEN LowerLetters[CHOOSE i \in 1..26 : UpperLetters[i] = c]
    ELSE c

\* str.lower()
lower(s) == [i \in 1..Len(s) |-> LowerChar(s[i])]

\* str.startswith(prefix)
startswith(s, prefix) ==
    /\ Len(s) >= Len(prefix)
    /\ SubSeq(s, 1, Len(prefix)) = prefix

\* the Python expression `k in t` for two strings
contains(t, k) ==
    \E i \in 0..(Len(t) - Len(k)) : SubSeq(t, i + 1, i + Len(k)) = k

\* str.rfind(c), 1-based; 0 when c does not occur (Python: -1)
rfind(s, c) ==
    IF \E i \in 1..Len(s) : s[i] = c
    THEN CHOOSE i \in 1..Len(s) : s[i] = c /\ \A j \in (i+1)..Len(s) : s[j] # c
    ELSE 0

\* os.path.basename(p)
basename(p) == SubSeq(p, rfind(p, "/") + 1, Len(p))

\* os.path.splitext(p)[1]: the text from the last dot of the last path
\* component on, unless that component has only dots before it
splitext(p) ==
    LET sepIndex == rfind(p, "/")
        dotIndex == rfind(p, ".")
    IN  IF /\ dotIndex > sepIndex
           /\ \E i \in (sepIndex + 1)..(dotIndex - 1) : p[i] # "."
        THEN SubSeq(p, dotIndex, Len(p))
        ELSE <<>>

(***************************************************************************)
(* Program constants.                                                      *)
(***************************************************************************)
TREE_FOLDER == <<"t","r","e","e","-","p","i","c","t","u","r","e","s","/">>

VIDEO_EXTENSIONS ==
    { <<".","m","p","4">>, <<".","m","o","v">>, <<".","a","v","i">>,
      <<".","m","k","v">>, <<".","w","e","b","m">> }

\* a mutation of is_video: the extension is compared without lower()
is_video_case_sensitive(filename) == splitext(filename) \in VIDEO_EXTENSIONS

is_video(filename) == lower(splitext(filename)) \in VIDEO_EXTENSIONS

\* f"temp_{os.path.basename(blob_name)}"
temp_path(blob_name) == <<"t","e","m","p","_">> \o basename(blob_name)

\* TREE_FOLDER + os.path.basename(blob_name)
tree_blob_name(blob_name) == TREE_FOLDER \o basename(blob_name)


(***************************************************************************)
(* Input universes.                                                        *)
(***************************************************************************)
\* Names an object of the container may have; object i initially holds
\* the bytes i.
BlobNames ==
    << <<"a",".","j","p","g">>,
       <<"d","/","a",".","j","p","g">>,
       <<"c",".","m","p","4">>,
       <<"t","r","e","e","-","p","i","c","t","u","r","e","s","/","a",".","j","p","g">>,
       <<"t","r","e","e","-","p","i","c","t","u","r","e","s","/","s","/","a",".","j","p","g">> >>

\* Entries the local upload directory may hold.
LocalEntries ==
    << [name |-> <<"a",".","j","p","g">>, isfile |-> TRUE, data |-> 7],
       [name |-> <<"c","l","i","p",".","M","P","4">>, isfile |-> TRUE, data |-> 8],
       [name |-> <<"s","u","b">>, isfile |-> FALSE, data |-> 0] >>

\* Values of --upload / --download: absent (None), empty string, a path.
PathArgs ==
    { [given |-> FALSE, value |-> <<>>],
      [given |-> TRUE, value |-> <<>>],
      [given |-> TRUE, value |-> <<"d","i","r">>] }

KeywordPool == { <<"t","r","e","e">>, <<"T","r","e","e">> }

\* --keywords has nargs='+': at least one keyword; the lists of distinct
\* keywords are enumerated
KeywordLists ==
    { ks \in UNION { [1..k -> KeywordPool] : k \in 1..MaxKeywords } :
         \A i, j \in 1..Len(ks) : ks[i] = ks[j] => i = j }

\* What one call of the vision service can do: raise, or return tag names.
VisionOutcomes ==
    { [error |-> TRUE, tags |-> <<>>],
      [error |-> FALSE, tags |-> <<>>],
      [error |-> FALSE, tags |-> << <<"s","k","y">> >>],
      [error |-> FALSE, tags |-> << <<"S","k","y">>, <<"P","a","l","m"," ","T","r","e","e">> >>] }

\* bytes of a file just opened with "wb", and of the destination of a
\* server-side copy that has not completed
NoBytes == 0

Range(f) == { f[i] : i \in DOMAIN f }

Put(f, k, v) == [x \in (DOMAIN f) \cup {k} |-> IF x = k THEN v ELSE f[x]]

Remove(f, k) == [x \in (DOMAIN f) \ {k} |-> f[x]]

EmptyMap == [x \in {} |-> 0]

\* bool(value) of an argparse string argument
Truthy(a) == a.given /\ a.value # <<>>

(***************************************************************************)
(* State.                                                                  *)
(***************************************************************************)
VARIABLES
    creds,      \* AZURE_COMPUTER_VISION_KEY and _ENDPOINT are both set
    args,       \* parsed command line
    pc,         \* position of the process in main()
    exitCode,   \* process exit status, -1 while running
    blobs,      \* the container: object name -> bytes
    copying,    \* server-side copies in flight: destination -> bytes
    localDir,   \* entries of the upload directory seen by os.listdir
    dirExists,  \* the download directory exists
    files,      \* files written into the download directory: name -> bytes
    temps,      \* temp_<basename> files present in the working directory
    listed,     \* the list the current step iterates over
    todo,       \* the items of that list not yet visited
    uploaded,   \* names written by upload_blob
    deleted,    \* names removed by delete_blob
    moved,      \* <<source, destination>> of every copy started
    downloaded, \* [name, bytes] of every object read by the download step
    returned,   \* object name -> tags analyze_image_file returned for it
    analyzed,   \* objects whose analyze iteration ran to its end
    ran,        \* steps entered, in order
    finished,   \* steps that returned
    fname,      \* argument of the is_video call under test
    video       \* its result: "none" before the call, else "yes"/"no"

vars == << creds, args, pc, exitCode, blobs, copying, localDir, dirExists,
           files, temps, listed, todo, uploaded, deleted, moved, downloaded,
           returned, analyzed, ran, finished, fname, video >>

envVars == << creds, args >>
isVideoVars == << fname, video >>
storeVars == << blobs, copying >>
diskVars == << localDir, dirExists, files, temps >>
logVars == << uploaded, deleted, moved, downloaded, returned, analyzed >>

Init ==
    /\ creds \in BOOLEAN
    /\ args \in [upload : PathArgs, clean : BOOLEAN, analyze : BOOLEAN,
                 download : PathArgs, keywords : KeywordLists]
    /\ pc = "import"
    /\ exitCode = -1
    /\ \E I \in SUBSET (1..Len(BlobNames)) :
          /\ Cardinality(I) <= MaxBlobs
          /\ blobs = [n \in { BlobNames[i] : i \in I } |->
                        CHOOSE i \in I : BlobNames[i] = n]
    /\ copying = EmptyMap
    /\ localDir = {}
    /\ dirExists = FALSE   \* makedirs(exist_ok=True) changes nothing otherwise
    /\ files = EmptyMap
    /\ temps = {}
    /\ listed = {}
    /\ todo = {}
    /\ uploaded = {}
    /\ deleted = {}
    /\ moved = {}
    /\ downloaded = <<>>
    /\ returned = EmptyMap
    /\ analyzed = {}
    /\ ran = <<>>
    /\ finished = {}
    /\ fname = <<>>
    /\ video = "none"

(***************************************************************************)
(* Control flow helpers.                                                   *)
(***************************************************************************)
\* an exception nobody catches: traceback, exit status 1
Raise ==
    /\ pc' = "exit"
    /\ exitCode' = 1

NextOf(step) ==
    CASE step = "upload" -> "main_clean"
      [] step = "clean" -> "main_analyze"
      [] step = "analyze" -> "main_download"
      [] step = "download" -> "main_exit"

\* the loop of `step` goes on with `rest`, or the step returns
Continue(step, rest) ==
    /\ todo' = rest
    /\ exitCode' = exitCode
    /\ IF rest = {}
       THEN pc' = NextOf(step) /\ finished' = finished \cup {step}
       ELSE pc' = step /\ finished' = finished

\* the step is entered with the list `items`
Enter(step, items) ==
    /\ ran' = Append(ran, step)
    /\ listed' = items
    /\ Continue(step, items)

Skip(step) ==
    /\ pc' = NextOf(step)
    /\ UNCHANGED << exitCode, ran, listed, todo, finished >>

(***************************************************************************)
(* image_analyzer.py, executed by the import at the top of the pipeline.   *)
(***************************************************************************)
startup ==
    /\ pc = "import"
    /\ IF creds
       THEN pc' = "main_upload" /\ exitCode' = exitCode
       ELSE pc' = "exit" /\ exitCode' = 1
    /\ UNCHANGED << envVars, storeVars, diskVars, logVars, listed, todo,
                    ran, finished, isVideoVars >>

\* analyze_image_file: the tags, lower-cased; [] when the call raised
analyze_image_file(outcome) ==
    IF outcome.error
    THEN <<>>
    ELSE [i \in 1..Len(outcome.tags) |-> lower(outcome.tags[i])]

(***************************************************************************)
(* Upload.                                                                 *)
(***************************************************************************)
main_upload ==
    /\ pc = "main_upload"
    /\ IF Truthy(args.upload)
       THEN \E E \in SUBSET (1..Len(LocalEntries)) :
               /\ Cardinality(E) <= MaxLocal
               /\ localDir' = { LocalEntries[i] : i \in E }
               /\ Enter("upload", { LocalEntries[i].name : i \in E })
       ELSE Skip("upload") /\ localDir' = localDir
    /\ UNCHANGED << envVars, storeVars, dirExists, files, temps, logVars,
                    isVideoVars >>

\* a mutation of the upload guard: the is_video test is dropped
upload_guard_no_video_test(entry) == entry.isfile

\* os.path.isfile(fpath) and not is_video(fname)
upload_guard(entry) == entry.isfile /\ ~is_video(entry.name)

upload_local_images ==
    /\ pc = "upload"
    /\ \E f \in todo :
          LET entry == CHOOSE e \in localDir : e.name = f
          IN  IF upload_guard(entry)
              THEN \/ /\ blobs' = Put(blobs, f, entry.data)
                      /\ uploaded' = uploaded \cup {f}
                      /\ Continue("upload", todo \ {f})
                   \/ /\ Raise
                      /\ UNCHANGED << blobs, uploaded, todo, finished >>
              ELSE /\ Continue("upload", todo \ {f})
                   /\ UNCHANGED << blobs, uploaded >>
    /\ UNCHANGED << envVars, copying, diskVars, deleted, moved, downloaded,
                    returned, analyzed, listed, ran, isVideoVars >>

(***************************************************************************)
(* Clean.                                                                  *)
(***************************************************************************)
main_clean ==
    /\ pc = "main_clean"
    /\ IF args.clean
       THEN Enter("clean", DOMAIN blobs)
       ELSE Skip("clean")
    /\ UNCHANGED << envVars, storeVars, diskVars, logVars, isVideoVars >>

\* a mutation of the clean guard: the test is inverted
clean_guard_inverted(name) == startswith(name, TREE_FOLDER)

\* not blob.name.startswith(TREE_FOLDER)
clean_guard(name) == ~startswith(name, TREE_FOLDER)

clean_blob_storage ==
    /\ pc = "clean"
    /\ \E n \in todo :
          IF clean_guard(n)
          THEN \/ /\ blobs' = Remove(blobs, n)
                  /\ copying' = Remove(copying, n)
                  /\ deleted' = deleted \cup {n}
                  /\ Continue("clean", todo \ {n})
               \/ /\ Raise
                  /\ UNCHANGED << storeVars, deleted, todo, finished >>
          ELSE /\ Continue("clean", todo \ {n})
               /\ UNCHANGED << storeVars, deleted >>
    /\ UNCHANGED << envVars, diskVars, uploaded, moved, downloaded,
                    returned, analyzed, listed, ran, isVideoVars >>


(***************************************************************************)
(* Analyze and move.                                                       *)
(***************************************************************************)
main_analyze ==
    /\ pc = "main_analyze"
    /\ IF args.analyze
       THEN Enter("analyze",
                  { n \in DOMAIN blobs : ~startswith(n, TREE_FOLDER) })
       ELSE Skip("analyze")
    /\ UNCHANGED << envVars, storeVars, diskVars, logVars, isVideoVars >>

\* tags and any(kw in tag.lower() for tag in tags for kw in keywords)
keyword_match(tags, keywords) ==
    /\ tags # <<>>
    /\ \E i \in 1..Len(tags) : \E j \in 1..Len(keywords) :
          contains(lower(tags[i]), keywords[j])

\* start_copy_from_url returned: the destination exists; it holds the
\* source's bytes at once, or only when the server completes the copy
start_copy(src, dst) ==
    /\ moved' = moved \cup { << src, dst >> }
    /\ \/ /\ blobs' = Put(blobs, dst, blobs[src])
          /\ copying' = Remove(copying, dst)
       \/ /\ blobs' = Put(blobs, dst, NoBytes)
          /\ copying' = Put(copying, dst, blobs[src])

analyze_and_move_blobs ==
    /\ pc = "analyze"
    /\ \E n \in todo :
          IF is_video(n)
          THEN /\ Continue("analyze", todo \ {n})
               /\ UNCHANGED << storeVars, temps, moved, returned, analyzed >>
          ELSE
            \/ \* open(temp_path, "wb") succeeds, download_blob raises
               /\ temps' = temps \cup { temp_path(n) }
               /\ Raise
               /\ UNCHANGED << storeVars, moved, returned, analyzed, todo,
                               finished >>
            \/ \E outcomes \in [1..Len(args.keywords) -> VisionOutcomes] :
                 LET tagsAt(i) == analyze_image_file(outcomes[i])
                     hits == { i \in 1..Len(args.keywords) :
                                  keyword_match(tagsAt(i), args.keywords) }
                     found == hits # {}
                     last == IF found
                             THEN CHOOSE i \in hits : \A j \in hits : i <= j
                             ELSE Len(args.keywords)
                     got == UNION { Range(tagsAt(i)) : i \in 1..last }
                 IN  /\ returned' = Put(returned, n, got)
                     /\ IF found
                        THEN \/ \* start_copy_from_url raises
                                /\ temps' = temps \cup { temp_path(n) }
                                /\ Raise
                                /\ UNCHANGED << storeVars, moved, analyzed,
                                                todo, finished >>
                             \/ /\ start_copy(n, tree_blob_name(n))
                                /\ temps' = temps \ { temp_path(n) }
                                /\ analyzed' = analyzed \cup {n}
                                /\ Continue("analyze", todo \ {n})
                        ELSE /\ temps' = temps \ { temp_path(n) }
                             /\ analyzed' = analyzed \cup {n}
                             /\ Continue("analyze", todo \ {n})
                             /\ UNCHANGED << storeVars, moved >>
    /\ UNCHANGED << envVars, localDir, dirExists, files, uploaded, deleted,
                    downloaded, listed, ran, isVideoVars >>

\* the storage service completes a pending server-side copy
copy_complete ==
    /\ \E dst \in DOMAIN copying :
          /\ blobs' = Put(blobs, dst, copying[dst])
          /\ copying' = Remove(copying, dst)
    /\ UNCHANGED << envVars, pc, exitCode, diskVars, logVars, listed, todo,
                    ran, finished, isVideoVars >>

(***************************************************************************)
(* Download.                                                               *)
(***************************************************************************)
\* a mutation of the download filter: every object is selected
download_filter_all(name) == TRUE

\* blob.name.startswith(TREE_FOLDER)
download_filter(name) == startswith(name, TREE_FOLDER)

main_download ==
    /\ pc = "main_download"
    /\ IF Truthy(args.download)
       THEN /\ dirExists' = TRUE
            /\ Enter("download", { n \in DOMAIN blobs : download_filter(n) })
       ELSE Skip("download") /\ dirExists' = dirExists
    /\ UNCHANGED << envVars, storeVars, localDir, files, temps, logVars,
                    isVideoVars >>

download_tree_media ==
    /\ pc = "download"
    /\ \E n \in todo :
          \/ \* open(local_path, "wb") succeeds, download_blob raises
             /\ files' = Put(files, basename(n), NoBytes)
             /\ Raise
             /\ UNCHANGED << downloaded, todo, finished >>
          \/ /\ files' = Put(files, basename(n), blobs[n])
             /\ downloaded' = Append(downloaded, [name |-> n, bytes |-> blobs[n]])
             /\ Continue("download", todo \ {n})
    /\ UNCHANGED << envVars, storeVars, localDir, dirExists, temps, uploaded,
                    deleted, moved, returned, analyzed, listed, ran,
                    isVideoVars >>

\* main() returns: exit status 0
main_return ==
    /\ pc = "main_exit"
    /\ pc' = "exit"
    /\ exitCode' = 0
    /\ UNCHANGED << envVars, storeVars, diskVars, logVars, listed, todo,
                    ran, finished, isVideoVars >>

Next ==
    \/ startup
    \/ main_upload
    \/ upload_local_images
    \/ main_clean
    \/ clean_blob_storage
    \/ main_analyze
    \/ analyze_and_move_blobs
    \/ copy_complete
    \/ main_download
    \/ download_tree_media
    \/ main_return

Spec == Init /\ [][Next]_vars

(***************************************************************************)
(* is_video on its own: the file name is the input.                        *)
(***************************************************************************)
NameChars == { ".", "/", "m", "M", "p", "4" }

ExampleNames ==
    { <<"t","e","s","t",".","m","p","4">>,
      <<"t","e","s","t",".","j","p","g">>,
      <<"c","l","i","p",".","M","P","4">>,
      <<"p","h","o","t","o",".","j","p","g">>,
      <<"a",".","b",".","M","o","V">>,
      <<"a",".","a","v","i">>,
      <<"a",".","m","k","v">>,
      <<"a",".",".","w","e","b","m">>,
      <<".",".","m","k","v">>,
      <<"x",".","m","p","4","/","a">>,
      <<"c","l","i","p",".","m","p","4",".","t","x","t">>,
      <<"m","p","4">> }

NameInputs == ExampleNames \cup UNION { [1..k -> NameChars] : k \in 0..MaxNameLen }

InitVideo ==
    /\ fname \in NameInputs
    /\ video = "none"
    /\ pc = "is_video"
    /\ creds = TRUE
    /\ args = [upload |-> [given |-> FALSE, value |-> <<>>], clean |-> FALSE,
               analyze |-> FALSE,
               download |-> [given |-> FALSE, value |-> <<>>],
               keywords |-> << <<"t","r","e","e">> >>]
    /\ exitCode = -1
    /\ blobs = EmptyMap
    /\ copying = EmptyMap
    /\ localDir = {}
    /\ dirExists = FALSE
    /\ files = EmptyMap
    /\ temps = {}
    /\ listed = {}
    /\ todo = {}
    /\ uploaded = {}
    /\ deleted = {}
    /\ moved = {}
    /\ downloaded = <<>>
    /\ returned = EmptyMap
    /\ analyzed = {}
    /\ ran = <<>>
    /\ finished = {}

call_is_video ==
    /\ pc = "is_video"
    /\ video = "none"
    /\ video' = IF is_video(fname) THEN "yes" ELSE "no"
    /\ UNCHANGED << fname, envVars, pc, exitCode, storeVars, diskVars,
                    logVars, listed, todo, ran, finished >>

NextVideo == call_is_video

SpecVideo == InitVideo /\ [][NextVideo]_vars


(***************************************************************************)
(* Properties.                                                             *)
(***************************************************************************)
Steps == << "upload", "clean", "analyze", "download" >>

\* the flag or argument of a step appears on the command line
FlagPresent(step) ==
    CASE step = "upload" -> args.upload.given
      [] step = "clean" -> args.clean
      [] step = "analyze" -> args.analyze
      [] step = "download" -> args.download.given

\* main() calls the step
Selected(step) ==
    CASE step = "upload" -> Truthy(args.upload)
      [] step = "clean" -> args.clean
      [] step = "analyze" -> args.analyze
      [] step = "download" -> Truthy(args.download)

\* The name ends, whatever the case of its letters, in a video extension
\* that follows a last path component having a character other than a dot.
HasVideoExtension(name) ==
    \E e \in VIDEO_EXTENSIONS :
       LET stem == Len(name) - Len(e)
       IN  /\ stem >= 1
           /\ lower(SubSeq(name, stem + 1, Len(name))) = e
           /\ \E i \in 1..stem :
                 /\ name[i] # "."
                 /\ \A j \in i..stem : name[j] # "/"

InTreeFolder(name) ==
    /\ Len(name) >= Len(TREE_FOLDER)
    /\ \A i \in 1..Len(TREE_FOLDER) : name[i] = TREE_FOLDER[i]

\* C1: a failing external call on one item does not stop the run: when the
\* process has exited (credentials present), every step main() selects has
\* gone through its whole list and returned.
C1_FailureDoesNotStopRun ==
    (pc = "exit" /\ creds) =>
        /\ todo = {}
        /\ \A i \in 1..4 : Selected(Steps[i]) => Steps[i] \in finished

\* C2: an analyzed object is copied to tree-pictures/<basename> if and only
\* if some keyword, compared case-insensitively, is a substring of some tag
\* the classifier returned for it.
C2_CopiedIffKeywordInTag ==
    \A n \in analyzed :
        (<< n, tree_blob_name(n) >> \in moved)
        <=> (\E k \in Range(args.keywords) : \E t \in returned[n] :
                contains(lower(t), lower(k)))

\* C3: no temporary file outlives the iteration that created it, whatever
\* the outcome of the iteration.
C3_TempFileAlwaysRemoved == temps = {}

\* C4: a moved object is present under tree-pictures/<basename> and no
\* longer under its original name.
C4_MovedObjectLeavesOriginalName ==
    \A m \in moved : m[2] \in DOMAIN blobs /\ m[1] \notin DOMAIN blobs

\* C5: the exit status is a failure exactly when the credentials are
\* absent, and then no step was entered.
C5_ExitFailureIffNoCredentials ==
    pc = "exit" =>
        /\ (exitCode # 0) <=> ~creds
        /\ ~creds => ran = <<>>

\* C6: when the Clean step has returned, the container holds exactly the
\* listed objects whose name starts with tree-pictures/, the deleted ones
\* are exactly the listed objects without the prefix; no object with the
\* prefix is ever deleted.
C6_CleanKeepsExactlyTreeFolder ==
    /\ \A n \in deleted : ~InTreeFolder(n)
    /\ (pc = "main_analyze" /\ "clean" \in finished) =>
          /\ DOMAIN blobs = { n \in listed : InTreeFolder(n) }
          /\ deleted = { n \in listed : ~InTreeFolder(n) }

C6_Witness ==
    /\ pc = "main_analyze"
    /\ "clean" \in finished
    /\ deleted # {}
    /\ DOMAIN blobs # {}

\* C7 as stated: when the Download step has returned, the directory exists,
\* only objects with the prefix were read, and every object with the prefix
\* has a file named by its base filename that holds the bytes read from it.
C7_EveryObjectHasItsOwnFile ==
    (pc = "main_exit" /\ "download" \in finished) =>
        /\ dirExists
        /\ { downloaded[i].name : i \in 1..Len(downloaded) } =
              { n \in DOMAIN blobs : InTreeFolder(n) }
        /\ \A i \in 1..Len(downloaded) :
              /\ basename(downloaded[i].name) \in DOMAIN files
              /\ files[basename(downloaded[i].name)] = downloaded[i].bytes

\* C7 amended: when the Download step has returned, the directory exists,
\* the objects read are exactly those with the prefix, the files written are
\* exactly their base filenames, and each file holds the bytes of the last
\* object read that has this base filename.
C7_FileHoldsLastObjectOfBasename ==
    (pc = "main_exit" /\ "download" \in finished) =>
        /\ dirExists
        /\ { downloaded[i].name : i \in 1..Len(downloaded) } =
              { n \in DOMAIN blobs : InTreeFolder(n) }
        /\ DOMAIN files =
              { basename(downloaded[i].name) : i \in 1..Len(downloaded) }
        /\ \A i \in 1..Len(downloaded) :
              (\A j \in (i+1)..Len(downloaded) :
                  basename(downloaded[j].name) # basename(downloaded[i].name))
              => files[basename(downloaded[i].name)] = downloaded[i].bytes

C7_Witness ==
    /\ pc = "main_exit"
    /\ "download" \in finished
    /\ Len(downloaded) = 2
    /\ basename(downloaded[1].name) = basename(downloaded[2].name)
    /\ \E n \in DOMAIN blobs : ~InTreeFolder(n)

\* C8: at exit (credentials present) the steps entered are exactly the
\* steps whose flag is present, each once, in the order Upload, Clean,
\* Analyze, Download.
C8_StepsRunIffFlagPresent ==
    (pc = "exit" /\ creds) =>
        /\ \A i \in 1..4 :
              FlagPresent(Steps[i]) <=> (\E j \in 1..Len(ran) : ran[j] = Steps[i])
        /\ \A j, k \in 1..Len(ran) :
              j < k => \E a, b \in 1..4 : a < b /\ ran[j] = Steps[a] /\ ran[k] = Steps[b]

\* C9: is_video(name) is true if and only if the name's extension, letters
\* compared case-insensitively, is one of the five video extensions.
C9_IsVideoIffVideoExtension ==
    video # "none" => ((video = "yes") <=> HasVideoExtension(fname))

C9_Witness ==
    /\ fname = <<"c","l","i","p",".","M","P","4">>
    /\ video = "yes"

\* C10: the Upload step never writes an object for a video file or for a
\* directory; when it has returned, the objects it wrote are exactly the
\* regular non-video files of the directory, each under its base filename
\* and holding the file's bytes.
C10_UploadExactlyNonVideoFiles ==
    /\ \A f \in uploaded :
          /\ ~HasVideoExtension(f)
          /\ \E e \in localDir : e.name = f /\ e.isfile
    /\ (pc = "main_clean" /\ "upload" \in finished) =>
          /\ uploaded = { e.name : e \in { x \in localDir :
                                x.isfile /\ ~HasVideoExtension(x.name) } }
          /\ \A e \in localDir :
                e.name \in uploaded =>
                   e.name \in DOMAIN blobs /\ blobs[e.name] = e.data

C10_Witness ==
    /\ pc = "main_clean"
    /\ "upload" \in finished
    /\ uploaded # {}
    /\ \E e \in localDir : e.isfile /\ HasVideoExtension(e.name)

=============================================================================
